---- MODULE Spec2Model ----
(***************************************************************************)
(* Model of the ACE-OAuth message codec of dcaf-rs (src/model/ace/mod.rs): *)
(* the four message types with their as_cbor_map / try_from_cbor_map       *)
(* implementations and the ErrorCode conversions.                          *)
(*                                                                         *)
(* Integers on the wire are i128-wide.  TLC's integers are 32 bit, so an   *)
(* integer is the pair <<hi, lo>> standing for hi * 2^16 + lo with         *)
(* 0 <= lo < 2^16; u8, u32 and i32 keep their true ranges.                 *)
(***************************************************************************)
EXTENDS Integers, Sequences, FiniteSets, TLC

\* Longest input pair sequence handed to try_from_cbor_map.
MaxLen == 2

----------------------------------------------------------------------------
\* Option<T> and Result<T, ()>

None == << >>
Some(x) == << x >>
Err == << >>
Ok(x) == << x >>

----------------------------------------------------------------------------
\* Wide integers

Limb == 2 ^ 16

Wide(hi, lo) == << hi, lo >>

\* The wide integer of a small natural.
WideOf(n) == Wide(0, n)

NegOne == Wide(-1, Limb - 1)
U32Max == Wide(Limb - 1, Limb - 1)
U32Over == Wide(Limb, 0)
I32Max == Wide(Limb \div 2 - 1, Limb - 1)
I32Over == Wide(Limb \div 2, 0)
I32Min == Wide(-(Limb \div 2), 0)
I32Under == Wide(-(Limb \div 2) - 1, Limb - 1)

----------------------------------------------------------------------------
\* ciborium::value::Value, the kinds the decoders match on

TextValue(x) == [kind |-> "Text", v |-> x]
BytesValue(x) == [kind |-> "Bytes", v |-> x]
IntegerValue(x) == [kind |-> "Integer", v |-> x]
NullValue == [kind |-> "Null", v |-> << >>]

\* A nested map is observed through the two functions applied to it: whether
\* key normalisation (cbor_map_from_int) succeeds, and what
\* ProofOfPossessionKey::try_from_cbor_map returns on the normalised map.
MapValue(intKeys, pop) == [kind |-> "Map", v |-> [intKeys |-> intKeys, pop |-> pop]]

\* Narrowing conversions of ciborium's Integer (TryFrom).
TryIntoU32Wrapping(x) == Ok(Wide(x[1] % Limb, x[2]))

TryIntoU32(x) == IF 0 <= x[1] /\ x[1] < Limb THEN Ok(x) ELSE Err

TryIntoI32(x) == IF -(Limb \div 2) <= x[1] /\ x[1] < Limb \div 2 THEN Ok(x) ELSE Err

TryIntoU8(x) == IF x[1] = 0 /\ x[2] < 256 THEN Ok(x[2]) ELSE Err

----------------------------------------------------------------------------
\* cbor_values and cbor_map

ByteStringFrom(x) == [bytes |-> x]

TextOrByteStringFromText(x) == [variant |-> "TextString", inner |-> x]

TextOrByteStringFromBytes(x) == [variant |-> "ByteString", inner |-> ByteStringFrom(x)]

cbor_map_from_int(x) == IF x.intKeys THEN Ok(x) ELSE Err

ProofOfPossessionKey_try_from_cbor_map(pop_map) == pop_map.pop

to_ciborium_map(key) == MapValue(TRUE, Some(key))

SerializeString(x) == TextValue(x)

SerializeByteString(x) == BytesValue(x.bytes)

SerializeTextOrByteString(x) ==
    IF x.variant = "TextString" THEN TextValue(x.inner) ELSE SerializeByteString(x.inner)

SerializeInteger(x) == IntegerValue(x)

SerializeU8(n) == IntegerValue(WideOf(n))

SerializeUnit(x) == NullValue

OptionMap(F(_), o) == IF o = None THEN None ELSE Some(F(o[1]))

cbor_map_vec_null(entries) ==
    [i \in 1..Len(entries) |->
        << entries[i][1],
           IF entries[i][2] = None THEN Some(NullValue) ELSE Some(entries[i][2][1]) >>]

\* cbor_map_vec!: one (key, boxed value) entry per argument, None kept as None.
cbor_map_vec(entries) ==
    [i \in 1..Len(entries) |->
        << entries[i][1], IF entries[i][2] = None THEN None ELSE Some(entries[i][2][1]) >>]

----------------------------------------------------------------------------
\* AuthServerRequestCreationHint

AuthServerRequestCreationHint_default ==
    [auth_server |-> None, kid |-> None, audience |-> None, scope |-> None,
     client_nonce |-> None]

AuthServerRequestCreationHint_as_cbor_map(self) ==
    cbor_map_vec(<<
        << 1, OptionMap(SerializeString, self.auth_server) >>,
        << 2, OptionMap(SerializeByteString, self.kid) >>,
        << 5, OptionMap(SerializeString, self.audience) >>,
        << 9, OptionMap(SerializeTextOrByteString, self.scope) >>,
        << 39, OptionMap(SerializeByteString, self.client_nonce) >> >>)

AuthServerRequestCreationHint_entry_lenient(hint, entry) ==
    LET tag == entry[1]
        val == entry[2]
        x == val.v
    IN CASE tag = 1 /\ val.kind = "Text" -> Some([hint EXCEPT !.auth_server = Some(x)])
         [] tag = 2 /\ val.kind = "Bytes" -> Some([hint EXCEPT !.kid = Some(ByteStringFrom(x))])
         [] tag = 5 /\ val.kind = "Text" -> Some([hint EXCEPT !.audience = Some(x)])
         [] tag = 9 /\ val.kind = "Text" ->
                Some([hint EXCEPT !.scope = Some(TextOrByteStringFromText(x))])
         [] tag = 9 /\ val.kind = "Bytes" ->
                Some([hint EXCEPT !.scope = Some(TextOrByteStringFromBytes(x))])
         [] tag = 39 /\ val.kind = "Bytes" ->
                Some([hint EXCEPT !.client_nonce = Some(ByteStringFrom(x))])
         [] OTHER -> Some(hint)

\* One iteration of the loop: Some(hint') or None for `return None`.
AuthServerRequestCreationHint_entry(hint, entry) ==
    LET tag == entry[1]
        val == entry[2]
        x == val.v
    IN CASE tag = 1 /\ val.kind = "Text" -> Some([hint EXCEPT !.auth_server = Some(x)])
         [] tag = 2 /\ val.kind = "Bytes" -> Some([hint EXCEPT !.kid = Some(ByteStringFrom(x))])
         [] tag = 5 /\ val.kind = "Text" -> Some([hint EXCEPT !.audience = Some(x)])
         [] tag = 9 /\ val.kind = "Text" ->
                Some([hint EXCEPT !.scope = Some(TextOrByteStringFromText(x))])
         [] tag = 9 /\ val.kind = "Bytes" ->
                Some([hint EXCEPT !.scope = Some(TextOrByteStringFromBytes(x))])
         [] tag = 39 /\ val.kind = "Bytes" ->
                Some([hint EXCEPT !.client_nonce = Some(ByteStringFrom(x))])
         [] OTHER -> None

RECURSIVE AuthServerRequestCreationHint_loop(_, _)
AuthServerRequestCreationHint_loop(hint, map) ==
    IF map = << >> THEN Some(hint)
    ELSE LET r == AuthServerRequestCreationHint_entry(hint, Head(map))
         IN IF r = None THEN None
            ELSE AuthServerRequestCreationHint_loop(r[1], Tail(map))

AuthServerRequestCreationHint_try_from_cbor_map(map) ==
    AuthServerRequestCreationHint_loop(AuthServerRequestCreationHint_default, map)

----------------------------------------------------------------------------
\* AccessTokenRequest

AccessTokenRequest_default ==
    [grant_type |-> None, audience |-> None, redirect_uri |-> None,
     client_nonce |-> None, scope |-> None, ace_profile |-> None,
     req_cnf |-> None, client_id |-> ""]

AccessTokenRequest_as_cbor_map(self) ==
    cbor_map_vec(<<
        << 4, OptionMap(to_ciborium_map, self.req_cnf) >>,
        << 5, OptionMap(SerializeString, self.audience) >>,
        << 9, OptionMap(SerializeTextOrByteString, self.scope) >>,
        << 24, Some(SerializeString(self.client_id)) >>,
        << 27, OptionMap(SerializeString, self.redirect_uri) >>,
        << 33, OptionMap(SerializeInteger, self.grant_type) >>,
        << 38, OptionMap(SerializeUnit, self.ace_profile) >>,
        << 39, OptionMap(SerializeByteString, self.client_nonce) >> >>)

AccessTokenRequest_entry(request, entry) ==
    LET tag == entry[1]
        val == entry[2]
        x == val.v
    IN CASE tag = 4 /\ val.kind = "Map" ->
                IF cbor_map_from_int(x) # Err
                THEN Some([request EXCEPT !.req_cnf =
                        ProofOfPossessionKey_try_from_cbor_map(cbor_map_from_int(x)[1])])
                ELSE None
         [] tag = 5 /\ val.kind = "Text" -> Some([request EXCEPT !.audience = Some(x)])
         [] tag = 9 /\ val.kind = "Text" ->
                Some([request EXCEPT !.scope = Some([variant |-> "TextString", inner |-> x])])
         [] tag = 9 /\ val.kind = "Bytes" ->
                Some([request EXCEPT !.scope =
                        Some([variant |-> "ByteString", inner |-> ByteStringFrom(x)])])
         [] tag = 24 /\ val.kind = "Text" -> Some([request EXCEPT !.client_id = x])
         [] tag = 27 /\ val.kind = "Text" -> Some([request EXCEPT !.redirect_uri = Some(x)])
         [] tag = 33 /\ val.kind = "Integer" ->
                IF TryIntoU32(x) # Err
                THEN Some([request EXCEPT !.grant_type = Some(TryIntoU32(x)[1])])
                ELSE None
         [] tag = 38 /\ val.kind = "Null" -> Some([request EXCEPT !.ace_profile = Some(<< >>)])
         [] tag = 39 /\ val.kind = "Bytes" ->
                Some([request EXCEPT !.client_nonce = Some(ByteStringFrom(x))])
         [] OTHER -> None

RECURSIVE AccessTokenRequest_loop(_, _)
AccessTokenRequest_loop(request, map) ==
    IF map = << >> THEN Some(request)
    ELSE LET r == AccessTokenRequest_entry(request, Head(map))
         IN IF r = None THEN None
            ELSE AccessTokenRequest_loop(r[1], Tail(map))

AccessTokenRequest_try_from_cbor_map(map) ==
    AccessTokenRequest_loop(AccessTokenRequest_default, map)

----------------------------------------------------------------------------
\* AccessTokenResponse

AccessTokenResponse_default ==
    [access_token |-> ByteStringFrom(<< >>), expires_in |-> None, scope |-> None,
     token_type |-> None, refresh_token |-> None, ace_profile |-> None,
     cnf |-> None, rs_cnf |-> None]

AccessTokenResponse_as_cbor_map_field_order(self) ==
    cbor_map_vec(<<
        << 1, Some(SerializeByteString(self.access_token)) >>,
        << 2, OptionMap(SerializeInteger, self.expires_in) >>,
        << 9, OptionMap(SerializeTextOrByteString, self.scope) >>,
        << 34, OptionMap(SerializeInteger, self.token_type) >>,
        << 37, OptionMap(SerializeByteString, self.refresh_token) >>,
        << 38, OptionMap(SerializeInteger, self.ace_profile) >>,
        << 8, OptionMap(to_ciborium_map, self.cnf) >>,
        << 41, OptionMap(to_ciborium_map, self.rs_cnf) >> >>)

AccessTokenResponse_as_cbor_map(self) ==
    cbor_map_vec(<<
        << 1, Some(SerializeByteString(self.access_token)) >>,
        << 2, OptionMap(SerializeInteger, self.expires_in) >>,
        << 8, OptionMap(to_ciborium_map, self.cnf) >>,
        << 9, OptionMap(SerializeTextOrByteString, self.scope) >>,
        << 34, OptionMap(SerializeInteger, self.token_type) >>,
        << 37, OptionMap(SerializeByteString, self.refresh_token) >>,
        << 38, OptionMap(SerializeInteger, self.ace_profile) >>,
        << 41, OptionMap(to_ciborium_map, self.rs_cnf) >> >>)

AccessTokenResponse_entry(response, entry) ==
    LET tag == entry[1]
        val == entry[2]
        x == val.v
    IN CASE tag = 1 /\ val.kind = "Bytes" ->
                Some([response EXCEPT !.access_token = ByteStringFrom(x)])
         [] tag = 2 /\ val.kind = "Integer" ->
                IF TryIntoU32(x) # Err
                THEN Some([response EXCEPT !.expires_in = Some(TryIntoU32(x)[1])])
                ELSE None
         [] tag = 8 /\ val.kind = "Map" ->
                IF cbor_map_from_int(x) # Err
                THEN Some([response EXCEPT !.cnf =
                        ProofOfPossessionKey_try_from_cbor_map(cbor_map_from_int(x)[1])])
                ELSE None
         [] tag = 9 /\ val.kind = "Bytes" ->
                Some([response EXCEPT !.scope = Some(TextOrByteStringFromBytes(x))])
         [] tag = 9 /\ val.kind = "Text" ->
                Some([response EXCEPT !.scope = Some(TextOrByteStringFromText(x))])
         [] tag = 34 /\ val.kind = "Integer" ->
                IF TryIntoI32(x) # Err
                THEN Some([response EXCEPT !.token_type = Some(TryIntoI32(x)[1])])
                ELSE None
         [] tag = 37 /\ val.kind = "Bytes" ->
                Some([response EXCEPT !.refresh_token = Some(ByteStringFrom(x))])
         [] tag = 38 /\ val.kind = "Integer" ->
                IF TryIntoI32(x) # Err
                THEN Some([response EXCEPT !.ace_profile = Some(TryIntoI32(x)[1])])
                ELSE None
         [] tag = 41 /\ val.kind = "Map" ->
                IF cbor_map_from_int(x) # Err
                THEN Some([response EXCEPT !.rs_cnf =
                        ProofOfPossessionKey_try_from_cbor_map(cbor_map_from_int(x)[1])])
                ELSE None
         [] OTHER -> None

RECURSIVE AccessTokenResponse_loop(_, _)
AccessTokenResponse_loop(response, map) ==
    IF map = << >> THEN Some(response)
    ELSE LET r == AccessTokenResponse_entry(response, Head(map))
         IN IF r = None THEN None
            ELSE AccessTokenResponse_loop(r[1], Tail(map))

AccessTokenResponse_try_from_cbor_map(map) ==
    AccessTokenResponse_loop(AccessTokenResponse_default, map)

----------------------------------------------------------------------------
\* ErrorCode

ErrorCode ==
    {"InvalidRequest", "InvalidClient", "InvalidGrant", "UnauthorizedClient",
     "UnsupportedGrantType", "InvalidScope", "UnsupportedPopKey",
     "IncompatibleAceProfiles"}

ErrorCode_try_from_u8_off_by_one(value) ==
    CASE value = 0 -> Ok("InvalidRequest")
      [] value = 1 -> Ok("InvalidClient")
      [] value = 2 -> Ok("InvalidGrant")
      [] value = 3 -> Ok("UnauthorizedClient")
      [] value = 4 -> Ok("UnsupportedGrantType")
      [] value = 5 -> Ok("InvalidScope")
      [] value = 6 -> Ok("UnsupportedPopKey")
      [] value = 7 -> Ok("IncompatibleAceProfiles")
      [] OTHER -> Err

ErrorCode_try_from_u8(value) ==
    CASE value = 1 -> Ok("InvalidRequest")
      [] value = 2 -> Ok("InvalidClient")
      [] value = 3 -> Ok("InvalidGrant")
      [] value = 4 -> Ok("UnauthorizedClient")
      [] value = 5 -> Ok("UnsupportedGrantType")
      [] value = 6 -> Ok("InvalidScope")
      [] value = 7 -> Ok("UnsupportedPopKey")
      [] value = 8 -> Ok("IncompatibleAceProfiles")
      [] OTHER -> Err

ErrorCode_try_from_i128(value) ==
    IF TryIntoU8(value) = Err THEN Err ELSE ErrorCode_try_from_u8(TryIntoU8(value)[1])

u8_from_ErrorCode(code) ==
    CASE code = "InvalidRequest" -> 1
      [] code = "InvalidClient" -> 2
      [] code = "InvalidGrant" -> 3
      [] code = "UnauthorizedClient" -> 4
      [] code = "UnsupportedGrantType" -> 5
      [] code = "InvalidScope" -> 6
      [] code = "UnsupportedPopKey" -> 7
      [] code = "IncompatibleAceProfiles" -> 8

----------------------------------------------------------------------------
\* ErrorResponse

ErrorResponse_as_cbor_map(self) ==
    cbor_map_vec(<<
        << 30, Some(SerializeU8(u8_from_ErrorCode(self.error))) >>,
        << 31, OptionMap(SerializeString, self.error_description) >>,
        << 32, OptionMap(SerializeString, self.error_uri) >> >>)

\* The loop's locals: maybe_error, error_description, error_uri.
ErrorResponse_locals ==
    [maybe_error |-> None, error_description |-> None, error_uri |-> None]

ErrorResponse_entry(locals, entry) ==
    LET tag == entry[1]
        val == entry[2]
        x == val.v
    IN CASE tag = 30 /\ val.kind = "Integer" ->
                IF TryIntoU8(x) # Err
                THEN Some([locals EXCEPT !.maybe_error = ErrorCode_try_from_u8(TryIntoU8(x)[1])])
                ELSE None
         [] tag = 31 /\ val.kind = "Text" ->
                Some([locals EXCEPT !.error_description = Some(x)])
         [] tag = 32 /\ val.kind = "Text" -> Some([locals EXCEPT !.error_uri = Some(x)])
         [] OTHER -> None

RECURSIVE ErrorResponse_loop(_, _)
ErrorResponse_loop(locals, map) ==
    IF map = << >> THEN Some(locals)
    ELSE LET r == ErrorResponse_entry(locals, Head(map))
         IN IF r = None THEN None
            ELSE ErrorResponse_loop(r[1], Tail(map))

\* maybe_error.map(|error| ErrorResponse { error, error_uri, error_description })
ErrorResponse_build_swapped(locals) ==
    IF locals.maybe_error = None THEN None
    ELSE Some([error |-> locals.maybe_error[1],
               error_description |-> locals.error_uri,
               error_uri |-> locals.error_description])

ErrorResponse_build_fallback(locals) ==
    Some([error |-> IF locals.maybe_error = None THEN "InvalidRequest"
                    ELSE locals.maybe_error[1],
          error_description |-> locals.error_description,
          error_uri |-> locals.error_uri])

ErrorResponse_build(locals) ==
    IF locals.maybe_error = None THEN None
    ELSE Some([error |-> locals.maybe_error[1],
               error_description |-> locals.error_description,
               error_uri |-> locals.error_uri])

ErrorResponse_try_from_cbor_map(map) ==
    LET r == ErrorResponse_loop(ErrorResponse_locals, map)
    IN IF r = None THEN None ELSE ErrorResponse_build(r[1])

----------------------------------------------------------------------------
\* The AsCborMap trait, dispatched on the implementing type

try_from_cbor_map(t, map) ==
    CASE t = "Hint" -> AuthServerRequestCreationHint_try_from_cbor_map(map)
      [] t = "Request" -> AccessTokenRequest_try_from_cbor_map(map)
      [] t = "Response" -> AccessTokenResponse_try_from_cbor_map(map)
      [] t = "Error" -> ErrorResponse_try_from_cbor_map(map)

\* The transcoder between as_cbor_map's entries and the decoder's pairs:
\* absent entries are skipped, present ones arrive as (tag, value).
RECURSIVE Transcode(_)
Transcode(entries) ==
    IF entries = << >> THEN << >>
    ELSE IF Head(entries)[2] = None THEN Transcode(Tail(entries))
         ELSE << << Head(entries)[1], Head(entries)[2][1] >> >> \o Transcode(Tail(entries))

----------------------------------------------------------------------------
\* Inputs

TextValues == {TextValue("a"), TextValue("b")}
BytesValues == {BytesValue(<< 1 >>), BytesValue(<< 1, 2 >>)}
MapValues ==
    {MapValue(TRUE, Some("k1")), MapValue(TRUE, Some("k2")), MapValue(TRUE, None),
     MapValue(FALSE, None)}
U32Values == {IntegerValue(x) : x \in {NegOne, WideOf(0), WideOf(1), U32Max, U32Over}}
I32Values ==
    {IntegerValue(x) : x \in {I32Under, I32Min, WideOf(0), WideOf(1), I32Max, I32Over}}
CodeValues ==
    {IntegerValue(x) : x \in {NegOne, U32Over} \cup {WideOf(n) : n \in {0, 1, 2, 8, 9, 255, 256}}}

\* One value of every kind, tried at every tag.
AnyKindValues ==
    {TextValue("a"), BytesValue(<< 1 >>), IntegerValue(WideOf(0)), NullValue,
     MapValue(TRUE, Some("k1"))}

\* The tags tried with each message type: its own and one foreign to all.
InputTags(t) ==
    CASE t = "Hint" -> {1, 2, 5, 9, 39, 99}
      [] t = "Request" -> {4, 5, 9, 24, 27, 33, 38, 39, 99}
      [] t = "Response" -> {1, 2, 8, 9, 34, 37, 38, 41, 99}
      [] t = "Error" -> {30, 31, 32, 99}

\* Further values tried at the tags where they tell cases apart.
MoreValues(t, tag) ==
    CASE t = "Hint" /\ tag \in {1, 5} -> TextValues
      [] t = "Hint" /\ tag \in {2, 39} -> BytesValues
      [] t = "Request" /\ tag \in {5, 24, 27} -> TextValues
      [] t = "Request" /\ tag = 39 -> BytesValues
      [] t = "Request" /\ tag = 33 -> U32Values
      [] t = "Request" /\ tag = 4 -> MapValues
      [] t = "Response" /\ tag \in {1, 37} -> BytesValues
      [] t = "Response" /\ tag = 2 -> U32Values
      [] t = "Response" /\ tag \in {34, 38} -> I32Values
      [] t = "Response" /\ tag \in {8, 41} -> MapValues
      [] t = "Error" /\ tag = 30 -> CodeValues
      [] t = "Error" /\ tag \in {31, 32} -> TextValues
      [] tag = 9 -> TextValues \cup BytesValues
      [] OTHER -> {}

InputPairs(t) ==
    UNION {{<< tag, val >> : val \in AnyKindValues \cup MoreValues(t, tag)} : tag \in InputTags(t)}

\* The pair sequences of length n over the pairs tried with t.
InputMaps(t, n) == [1..n -> InputPairs(t)]

Opt(S) == {None} \cup {Some(x) : x \in S}

Strings == {"a", "b"}
ByteStrings == {ByteStringFrom(<< 1 >>)}
Scopes == {TextOrByteStringFromText("a"), TextOrByteStringFromBytes(<< 1 >>)}
Keys == {"k1"}

Hints ==
    [auth_server : Opt({"a"}), kid : Opt(ByteStrings), audience : Opt({"a"}),
     scope : Opt(Scopes), client_nonce : Opt(ByteStrings)]

Requests ==
    [grant_type : Opt({WideOf(0), U32Max}), audience : Opt({"a"}),
     redirect_uri : Opt({"a"}), client_nonce : Opt(ByteStrings), scope : Opt(Scopes),
     ace_profile : Opt({<< >>}), req_cnf : Opt(Keys), client_id : {"", "a"}]

Responses ==
    [access_token : {ByteStringFrom(<< >>), ByteStringFrom(<< 1, 2 >>)},
     expires_in : Opt({WideOf(3600), U32Max}), scope : Opt(Scopes),
     token_type : Opt({WideOf(1), I32Min}), refresh_token : Opt(ByteStrings),
     ace_profile : Opt({WideOf(1), I32Max}), cnf : Opt(Keys), rs_cnf : Opt(Keys)]

Errors ==
    [error : ErrorCode, error_description : Opt(Strings), error_uri : Opt(Strings)]

U8Inputs == 0..255

I128Inputs ==
    {WideOf(n) : n \in (0..10) \cup {255, 256, 257, 264}} \cup
    {NegOne, U32Max, U32Over, I32Min, Wide(1, 1), Wide(-1, 1)}

----------------------------------------------------------------------------
\* State: the last call made and what it returned.

VARIABLES op, ty, map, res, msg, enc, num, code

vars == << op, ty, map, res, msg, enc, num, code >>

Init ==
    /\ op = "idle"
    /\ ty = "none"
    /\ map = << >>
    /\ res = None
    /\ msg = None
    /\ enc = << >>
    /\ num = None
    /\ code = None

HintTryFromCborMap ==
    /\ op = "idle"
    /\ \E n \in 0..MaxLen : \E m \in InputMaps("Hint", n) :
        /\ map' = m
        /\ res' = AuthServerRequestCreationHint_try_from_cbor_map(m)
    /\ op' = "try_from_cbor_map"
    /\ ty' = "Hint"
    /\ UNCHANGED << msg, enc, num, code >>

RequestTryFromCborMap ==
    /\ op = "idle"
    /\ \E n \in 0..MaxLen : \E m \in InputMaps("Request", n) :
        /\ map' = m
        /\ res' = AccessTokenRequest_try_from_cbor_map(m)
    /\ op' = "try_from_cbor_map"
    /\ ty' = "Request"
    /\ UNCHANGED << msg, enc, num, code >>

ResponseTryFromCborMap ==
    /\ op = "idle"
    /\ \E n \in 0..MaxLen : \E m \in InputMaps("Response", n) :
        /\ map' = m
        /\ res' = AccessTokenResponse_try_from_cbor_map(m)
    /\ op' = "try_from_cbor_map"
    /\ ty' = "Response"
    /\ UNCHANGED << msg, enc, num, code >>

ErrorTryFromCborMap ==
    /\ op = "idle"
    /\ \E n \in 0..MaxLen : \E m \in InputMaps("Error", n) :
        /\ map' = m
        /\ res' = ErrorResponse_try_from_cbor_map(m)
    /\ op' = "try_from_cbor_map"
    /\ ty' = "Error"
    /\ UNCHANGED << msg, enc, num, code >>

HintAsCborMap ==
    /\ op = "idle"
    /\ \E m \in Hints :
        /\ msg' = Some(m)
        /\ enc' = AuthServerRequestCreationHint_as_cbor_map(m)
    /\ op' = "as_cbor_map"
    /\ ty' = "Hint"
    /\ UNCHANGED << map, res, num, code >>

RequestAsCborMap ==
    /\ op = "idle"
    /\ \E m \in Requests :
        /\ msg' = Some(m)
        /\ enc' = AccessTokenRequest_as_cbor_map(m)
    /\ op' = "as_cbor_map"
    /\ ty' = "Request"
    /\ UNCHANGED << map, res, num, code >>

ResponseAsCborMap ==
    /\ op = "idle"
    /\ \E m \in Responses :
        /\ msg' = Some(m)
        /\ enc' = AccessTokenResponse_as_cbor_map(m)
    /\ op' = "as_cbor_map"
    /\ ty' = "Response"
    /\ UNCHANGED << map, res, num, code >>

ErrorAsCborMap ==
    /\ op = "idle"
    /\ \E m \in Errors :
        /\ msg' = Some(m)
        /\ enc' = ErrorResponse_as_cbor_map(m)
    /\ op' = "as_cbor_map"
    /\ ty' = "Error"
    /\ UNCHANGED << map, res, num, code >>

\* The encoded entries go through the transcoder and are decoded again.
RoundTrip ==
    /\ op = "as_cbor_map"
    /\ map' = Transcode(enc)
    /\ res' = try_from_cbor_map(ty, Transcode(enc))
    /\ op' = "round_trip"
    /\ UNCHANGED << ty, msg, enc, num, code >>

ErrorCodeTryFromU8 ==
    /\ op = "idle"
    /\ \E n \in U8Inputs :
        /\ num' = Some(WideOf(n))
        /\ code' = ErrorCode_try_from_u8(n)
    /\ op' = "ErrorCode_try_from_u8"
    /\ UNCHANGED << ty, map, res, msg, enc >>

ErrorCodeTryFromI128 ==
    /\ op = "idle"
    /\ \E n \in I128Inputs :
        /\ num' = Some(n)
        /\ code' = ErrorCode_try_from_i128(n)
    /\ op' = "ErrorCode_try_from_i128"
    /\ UNCHANGED << ty, map, res, msg, enc >>

U8FromErrorCode ==
    /\ op = "idle"
    /\ \E c \in ErrorCode :
        /\ code' = Some(c)
        /\ num' = Some(WideOf(u8_from_ErrorCode(c)))
    /\ op' = "u8_from_ErrorCode"
    /\ UNCHANGED << ty, map, res, msg, enc >>

\* The call has returned; the caller is free to make the next one.
Return ==
    /\ op # "idle"
    /\ op' = "idle"
    /\ ty' = "none"
    /\ map' = << >>
    /\ res' = None
    /\ msg' = None
    /\ enc' = << >>
    /\ num' = None
    /\ code' = None

Next ==
    \/ HintTryFromCborMap
    \/ RequestTryFromCborMap
    \/ ResponseTryFromCborMap
    \/ ErrorTryFromCborMap
    \/ HintAsCborMap
    \/ RequestAsCborMap
    \/ ResponseAsCborMap
    \/ ErrorAsCborMap
    \/ RoundTrip
    \/ ErrorCodeTryFromU8
    \/ ErrorCodeTryFromI128
    \/ U8FromErrorCode
    \/ Return

Spec == Init /\ [][Next]_vars

----------------------------------------------------------------------------
\* The tag tables of the specification, against which the decoders are checked

KindsAt(t, tag) ==
    CASE t = "Hint" /\ tag \in {1, 5} -> {"Text"}
      [] t = "Hint" /\ tag \in {2, 39} -> {"Bytes"}
      [] t = "Hint" /\ tag = 9 -> {"Text", "Bytes"}
      [] t = "Request" /\ tag = 4 -> {"Map"}
      [] t = "Request" /\ tag \in {5, 24, 27} -> {"Text"}
      [] t = "Request" /\ tag = 9 -> {"Text", "Bytes"}
      [] t = "Request" /\ tag = 33 -> {"Integer"}
      [] t = "Request" /\ tag = 38 -> {"Null"}
      [] t = "Request" /\ tag = 39 -> {"Bytes"}
      [] t = "Response" /\ tag \in {1, 37} -> {"Bytes"}
      [] t = "Response" /\ tag \in {2, 34, 38} -> {"Integer"}
      [] t = "Response" /\ tag \in {8, 41} -> {"Map"}
      [] t = "Response" /\ tag = 9 -> {"Text", "Bytes"}
      [] t = "Error" /\ tag = 30 -> {"Integer"}
      [] t = "Error" /\ tag \in {31, 32} -> {"Text"}
      [] OTHER -> {}

TagOf(t) ==
    CASE t = "Hint" ->
            [auth_server |-> 1, kid |-> 2, audience |-> 5, scope |-> 9, client_nonce |-> 39]
      [] t = "Request" ->
            [req_cnf |-> 4, audience |-> 5, scope |-> 9, client_id |-> 24,
             redirect_uri |-> 27, grant_type |-> 33, ace_profile |-> 38, client_nonce |-> 39]
      [] t = "Response" ->
            [access_token |-> 1, expires_in |-> 2, cnf |-> 8, scope |-> 9,
             token_type |-> 34, refresh_token |-> 37, ace_profile |-> 38, rs_cnf |-> 41]
      [] t = "Error" -> [error |-> 30, error_description |-> 31, error_uri |-> 32]

TagList(t) ==
    CASE t = "Hint" -> << 1, 2, 5, 9, 39 >>
      [] t = "Request" -> << 4, 5, 9, 24, 27, 33, 38, 39 >>
      [] t = "Response" -> << 1, 2, 8, 9, 34, 37, 38, 41 >>
      [] t = "Error" -> << 30, 31, 32 >>

RequiredFields(t) ==
    CASE t = "Hint" -> {}
      [] t = "Request" -> {"client_id"}
      [] t = "Response" -> {"access_token"}
      [] t = "Error" -> {"error"}

Fields(t) == DOMAIN TagOf(t)
OptionalFields(t) == Fields(t) \ RequiredFields(t)

WideLE(a, b) == a[1] < b[1] \/ (a[1] = b[1] /\ a[2] <= b[2])
InU32(x) == WideLE(WideOf(0), x) /\ WideLE(x, U32Max)
InI32(x) == WideLE(I32Min, x) /\ WideLE(x, I32Max)
InOneToEight(x) == WideLE(WideOf(1), x) /\ WideLE(x, WideOf(8))

Decoding == op = "try_from_cbor_map"
Positions == 1..Len(map)
TagAt(i) == map[i][1]
ValAt(i) == map[i][2]
PositionsOf(tag) == {i \in Positions : TagAt(i) = tag}
Last(S) == CHOOSE i \in S : \A j \in S : j <= i
WireTags == {Transcode(enc)[i][1] : i \in 1..Len(Transcode(enc))}

\* The pair at position i has an unknown tag or a kind its tag does not allow.
Mismatch(i) == ValAt(i).kind \notin KindsAt(ty, TagAt(i))

PopTags ==
    CASE ty = "Request" -> {4}
      [] ty = "Response" -> {8, 41}
      [] OTHER -> {}

\* The pair at position i carries a map that does not decode as a key.
BadKey(i) ==
    /\ TagAt(i) \in PopTags
    /\ ValAt(i).kind = "Map"
    /\ (~ValAt(i).v.intKeys \/ ValAt(i).v.pop = None)

\* The pair at position i carries an integer too wide for its field.
Overflow(i) ==
    /\ ValAt(i).kind = "Integer"
    /\ \/ ty = "Request" /\ TagAt(i) = 33 /\ ~InU32(ValAt(i).v)
       \/ ty = "Response" /\ TagAt(i) = 2 /\ ~InU32(ValAt(i).v)
       \/ ty = "Response" /\ TagAt(i) \in {34, 38} /\ ~InI32(ValAt(i).v)

----------------------------------------------------------------------------
\* C1: a decode fails whenever some pair, at any position, has a tag outside
\* the message's tag set or a value kind its tag does not allow.
ClosedWorldDecode ==
    (Decoding /\ \E i \in Positions : Mismatch(i)) => res = None

ClosedWorldDecodeWitness ==
    /\ Decoding /\ ty = "Request" /\ Len(map) = 2
    /\ map[1] = << 24, TextValue("a") >>
    /\ map[2] = << 38, IntegerValue(WideOf(0)) >>
    /\ res = None

\* C2: a decode fails whenever a pair at tag 4 of a request, or at tag 8 or
\* 41 of a response, carries a map that does not decode as a
\* ProofOfPossessionKey or whose keys do not normalise.
NestedFailurePropagation ==
    (Decoding /\ \E i \in Positions : BadKey(i)) => res = None

\* C3: a message with every optional field set, encoded and decoded again,
\* comes back equal, the scope with its variant.
RoundTripAllSet ==
    (op = "round_trip" /\ \A f \in OptionalFields(ty) : msg[1][f] # None) => res = msg

RoundTripAllSetWitness ==
    /\ op = "round_trip" /\ ty = "Request"
    /\ \A f \in OptionalFields(ty) : msg[1][f] # None
    /\ msg[1].scope[1].variant = "ByteString"
    /\ Len(map) = 8
    /\ res = msg

\* C4: an ErrorResponse decode fails whenever some pair at tag 30 carries an
\* integer outside 1..8.
InvalidErrorCodeFails ==
    (Decoding /\ ty = "Error" /\
        \E i \in PositionsOf(30) : ValAt(i).kind = "Integer" /\ ~InOneToEight(ValAt(i).v))
    => res = None

\* C5: ErrorCode -> u8 -> ErrorCode and 1..8 -> ErrorCode -> u8 are the
\* identity, distinct variants have distinct integers, and every integer
\* outside 1..8 fails to convert.
ErrorCodeBijection ==
    /\ op = "u8_from_ErrorCode" =>
        /\ InOneToEight(num[1])
        /\ ErrorCode_try_from_u8(num[1][2]) = code
        /\ ErrorCode_try_from_i128(num[1]) = code
    /\ op \in {"ErrorCode_try_from_u8", "ErrorCode_try_from_i128"} =>
        IF InOneToEight(num[1])
        THEN code # Err /\ code[1] \in ErrorCode /\ u8_from_ErrorCode(code[1]) = num[1][2]
        ELSE code = Err
    /\ \A c1, c2 \in ErrorCode :
        c1 # c2 => u8_from_ErrorCode(c1) # u8_from_ErrorCode(c2)

ErrorCodeBijectionWitness ==
    /\ op = "ErrorCode_try_from_i128"
    /\ num = Some(WideOf(8))
    /\ code = Ok("IncompatibleAceProfiles")

\* C6: in as_cbor_map's entries an optional field's tag carries a value
\* exactly when the field is set, so the tags that reach the wire are those
\* of the set optional fields and of the always-emitted field.
OmissionOfUnsetFields ==
    op \in {"as_cbor_map", "round_trip"} =>
        /\ \A i \in 1..Len(enc) :
            enc[i][2] # None <=>
                \E f \in Fields(ty) :
                    /\ TagOf(ty)[f] = enc[i][1]
                    /\ f \in OptionalFields(ty) => msg[1][f] # None
        /\ WireTags =
            {TagOf(ty)[f] : f \in RequiredFields(ty)} \cup
            {TagOf(ty)[f] : f \in {g \in OptionalFields(ty) : msg[1][g] # None}}
        /\ (/\ ty = "Response"
            /\ msg[1].expires_in # None
            /\ msg[1].token_type # None
            /\ \A f \in OptionalFields(ty) \ {"expires_in", "token_type"} : msg[1][f] = None)
           => WireTags = {1, 2, 34}

OmissionOfUnsetFieldsWitness ==
    /\ op = "as_cbor_map" /\ ty = "Response"
    /\ msg[1].access_token = ByteStringFrom(<< 1, 2 >>)
    /\ msg[1].expires_in = Some(WideOf(3600))
    /\ msg[1].token_type = Some(WideOf(1))
    /\ \A f \in OptionalFields(ty) \ {"expires_in", "token_type"} : msg[1][f] = None
    /\ WireTags = {1, 2, 34}
    /\ enc[3] = << 8, None >>

\* C7: a decode fails when an integer field's pair carries an integer outside
\* the field's width (u32 for grant_type and expires_in, i32 for token_type
\* and the response's ace_profile), and a decode that succeeds stores the
\* integer of the field's last pair unchanged.
CheckedNarrowing ==
    Decoding =>
        /\ (\E i \in Positions : Overflow(i)) => res = None
        /\ (res # None /\ ty \in {"Request", "Response"}) =>
            \A f \in {"grant_type", "expires_in", "token_type", "ace_profile"} \cap Fields(ty) :
                (PositionsOf(TagOf(ty)[f]) # {} /\
                 ValAt(Last(PositionsOf(TagOf(ty)[f]))).kind = "Integer")
                => res[1][f] = Some(ValAt(Last(PositionsOf(TagOf(ty)[f]))).v)

CheckedNarrowingWitness ==
    /\ Decoding /\ ty = "Response" /\ Len(map) = 2
    /\ map[1] = << 2, IntegerValue(U32Max) >>
    /\ map[2] = << 34, IntegerValue(I32Min) >>
    /\ res # None
    /\ res[1].expires_in = Some(U32Max)
    /\ res[1].token_type = Some(I32Min)

\* What C8 says of the absent required fields.
DefaultsWhenAbsent ==
    /\ res # None
    /\ (ty = "Request" /\ PositionsOf(24) = {}) => res[1].client_id = ""
    /\ (ty = "Response" /\ PositionsOf(1) = {}) => res[1].access_token = ByteStringFrom(<< >>)

\* C8 as stated: hints, requests and responses decode whenever every pair
\* matches the tag table, whichever tags are absent, an absent client_id or
\* access_token staying empty; an ErrorResponse without tag 30 fails.
RequiredFieldPresenceAsStated ==
    Decoding =>
        /\ (ty # "Error" /\ \A i \in Positions : ~Mismatch(i)) => DefaultsWhenAbsent
        /\ (ty = "Error" /\ PositionsOf(30) = {}) => res = None

\* C8 amended: the same, for inputs in which moreover every integer fits its
\* field's width and every map decodes as a ProofOfPossessionKey.
RequiredFieldPresence ==
    Decoding =>
        /\ (ty # "Error" /\ \A i \in Positions : ~Mismatch(i) /\ ~Overflow(i) /\ ~BadKey(i))
            => DefaultsWhenAbsent
        /\ (ty = "Error" /\ PositionsOf(30) = {}) => res = None

RequiredFieldPresenceWitness ==
    /\ Decoding /\ ty = "Request" /\ Len(map) = 2
    /\ \A i \in Positions : ~Mismatch(i) /\ ~Overflow(i) /\ ~BadKey(i)
    /\ PositionsOf(24) = {}
    /\ res # None
    /\ res[1].client_id = ""
    /\ res[1].grant_type = Some(U32Max)

\* The value a field takes from a pair of its tag.
FieldFrom(f, val) ==
    CASE f = "client_id" -> val.v
      [] f = "access_token" -> [bytes |-> val.v]
      [] f = "error" -> CHOOSE c \in ErrorCode : WideOf(u8_from_ErrorCode(c)) = val.v
      [] f = "scope" /\ val.kind = "Text" -> Some([variant |-> "TextString", inner |-> val.v])
      [] f = "scope" /\ val.kind = "Bytes" ->
            Some([variant |-> "ByteString", inner |-> [bytes |-> val.v]])
      [] val.kind = "Bytes" -> Some([bytes |-> val.v])
      [] val.kind = "Map" -> val.v.pop
      [] val.kind = "Null" -> Some(<< >>)
      [] OTHER -> Some(val.v)

FieldDefault(f) ==
    CASE f = "client_id" -> ""
      [] f = "access_token" -> [bytes |-> << >>]
      [] OTHER -> None

\* C9: after a successful decode every field holds the value of the last pair
\* carrying its tag, and is unset or default only if no pair carries the tag.
LastWriterWins ==
    (Decoding /\ res # None) =>
        \A f \in Fields(ty) :
            IF PositionsOf(TagOf(ty)[f]) = {}
            THEN res[1][f] = FieldDefault(f)
            ELSE /\ res[1][f] = FieldFrom(f, ValAt(Last(PositionsOf(TagOf(ty)[f]))))
                 /\ f \in OptionalFields(ty) => res[1][f] # None

SeqPermutations(s) ==
    {[i \in 1..Len(s) |-> s[p[i]]] : p \in Permutations(1..Len(s))}

\* C10: reordering an input without repeated tags does not change the outcome
\* of the decode, and as_cbor_map lists the message's tags in strictly
\* ascending order, each once.
OrderIndependence ==
    /\ (Decoding /\ \A i, j \in Positions : i # j => TagAt(i) # TagAt(j)) =>
        \A m \in SeqPermutations(map) : try_from_cbor_map(ty, m) = res
    /\ op \in {"as_cbor_map", "round_trip"} =>
        /\ [i \in 1..Len(enc) |-> enc[i][1]] = TagList(ty)
        /\ \A i, j \in 1..Len(enc) : i < j => enc[i][1] < enc[j][1]

OrderIndependenceWitness ==
    /\ Decoding /\ ty = "Response" /\ Len(map) = 2
    /\ map[1] = << 41, MapValue(TRUE, Some("k2")) >>
    /\ map[2] = << 1, BytesValue(<< 1, 2 >>) >>
    /\ res # None
    /\ res = try_from_cbor_map(ty, << map[2], map[1] >>)

====
